---------------------------- MODULE Spec2Model ----------------------------
(***************************************************************************)
(* A model of the Newton-fractal sampler of benwhittington/Fractal:        *)
(* src/src/newton.cpp (polynomial_and_deriv, newton_root,                  *)
(* compute_newton_range, sample_newton) and src/src/fractal.hpp            *)
(* (iteration_limits, argmin).                                             *)
(*                                                                         *)
(* Numbers.  The program computes in double and std::complex<double>.  The *)
(* model computes in exact rationals n/d (d > 0, lowest terms); a          *)
(* denominator of 0 stands for a non-finite double (1/0 is +infinity, 0/0  *)
(* is NaN).  Rounding is therefore not modelled: the inputs are kept small *)
(* enough that every value is an exact rational with 32-bit numerator and  *)
(* denominator (TLC stops with an overflow error otherwise).               *)
(***************************************************************************)
EXTENDS Integers, Sequences, FiniteSets, TLC

VARIABLES
  \* ---- where the call being modelled stands
  pc,
  \* ---- sample_newton: parameters
  num_threads, yresolution, xresolution, verbose, grid, coeffs, degree, max_itr,
  \* ---- sample_newton: locals, threads and the caller's buffers
  increments, threads, joined, re, im, iterations, limit,
  \* ---- observation of the run: who wrote each pixel, which progress lines
  writers, logged,
  \* ---- one call of newton_root
  tol, init, x, itr, itr_taken, ret,
  \* ---- one call of polynomial_and_deriv
  px, presult,
  \* ---- one call of argmin
  range, comp, aresult

sampleVars == <<num_threads, yresolution, xresolution, verbose, grid,
                increments, threads, joined, re, im, iterations, limit,
                writers, logged>>
polyInputs == <<coeffs, degree, max_itr>>
newtonVars == <<tol, init, x, itr, itr_taken, ret>>
polyVars   == <<px, presult>>
argminVars == <<range, comp, aresult>>
vars == <<pc, sampleVars, polyInputs, newtonVars, polyVars, argminVars>>

(***************************************************************************)
(* Bounds of the model.                                                    *)
(***************************************************************************)
MaxThreads == 3      \* sample_newton: num_threads in 1..MaxThreads
MaxY == 3            \* sample_newton: yresolution in 1..MaxY
MaxX == 2            \* sample_newton: xresolution in 1..MaxX
MaxItr == 1          \* sample_newton: max_itr in 0..MaxItr
MaxPartThreads == 6  \* iteration_limits alone: num_threads in 1..MaxPartThreads
MaxPartY == 12       \* iteration_limits alone: yresolution in 1..MaxPartY
MaxNewtonItr == 2    \* newton_root alone: max_itr in -1..MaxNewtonItr
MaxDegree == 2       \* polynomial_and_deriv alone: degree in 0..MaxDegree
MaxLen == 3          \* argmin alone: ranges of 1..MaxLen elements
MaxLogThreads == 2   \* progress logging: num_threads in 1..MaxLogThreads

(***************************************************************************)
(* Program constants.                                                      *)
(***************************************************************************)
IntMax == 2147483647
TolInverse == 1000000
LogEvery == 100

(***************************************************************************)
(* double: exact rationals.                                                *)
(***************************************************************************)
Abs(n) == IF n < 0 THEN 0 - n ELSE n
Sign(n) == IF n < 0 THEN 0 - 1 ELSE IF n > 0 THEN 1 ELSE 0

RECURSIVE GCD(_, _)
GCD(a, b) == IF b = 0 THEN a ELSE GCD(b, a % b)

RNaN == [n |-> 0, d |-> 0]
RInf == [n |-> 1, d |-> 0]
Finite(a) == a.d # 0

\* n/d in lowest terms with a positive denominator; n/0 is an infinity or NaN.
RNorm(n, d) ==
  IF d = 0 THEN [n |-> Sign(n), d |-> 0]
  ELSE LET g == GCD(Abs(n), Abs(d))
       IN  [n |-> (Sign(d) * n) \div g, d |-> Abs(d) \div g]

RInt(k) == [n |-> k, d |-> 1]

\* The four operations, exact; common factors are divided out before the
\* products are formed, which keeps the intermediate numbers small.
RAdd(a, b) ==
  IF Finite(a) /\ Finite(b)
  THEN LET g == GCD(a.d, b.d)
       IN  RNorm(a.n * (b.d \div g) + b.n * (a.d \div g), (a.d \div g) * b.d)
  ELSE RNaN
RNeg(a) == [n |-> 0 - a.n, d |-> a.d]
RSub(a, b) == RAdd(a, RNeg(b))
RMul(a, b) ==
  IF Finite(a) /\ Finite(b)
  THEN LET g1 == GCD(Abs(a.n), b.d)
           g2 == GCD(Abs(b.n), a.d)
       IN  RNorm((a.n \div g1) * (b.n \div g2), (a.d \div g2) * (b.d \div g1))
  ELSE RNaN
RDiv(a, b) ==
  IF Finite(a) /\ Finite(b)
  THEN IF b.n = 0 THEN RNorm(a.n, 0)
       ELSE RMul(a, [n |-> Sign(b.n) * b.d, d |-> Abs(b.n)])
  ELSE RNaN

(***************************************************************************)
(* std::complex<double>: a pair of doubles.                                *)
(***************************************************************************)
Complex(a, b) == [re |-> a, im |-> b]
CReal(k) == Complex(RInt(k), RInt(0))
CZero == CReal(0)
CInf == Complex(RInf, RInf)
CFinite(z) == Finite(z.re) /\ Finite(z.im)

CAdd(z, w) == Complex(RAdd(z.re, w.re), RAdd(z.im, w.im))
CSub(z, w) == Complex(RSub(z.re, w.re), RSub(z.im, w.im))
CMul(z, w) == Complex(RSub(RMul(z.re, w.re), RMul(z.im, w.im)),
                      RAdd(RMul(z.re, w.im), RMul(z.im, w.re)))
CDiv(z, w) ==
  LET m == RAdd(RMul(w.re, w.re), RMul(w.im, w.im))
  IN  Complex(RDiv(RAdd(RMul(z.re, w.re), RMul(z.im, w.im)), m),
              RDiv(RSub(RMul(z.im, w.re), RMul(z.re, w.im)), m))

\* a < b for finite a, b >= 0, by comparing integer parts and then the
\* reciprocals of the fractional parts: exact, and no product is formed.
RECURSIVE FracLess(_, _, _, _)
FracLess(p1, q1, p2, q2) ==
  LET i1 == p1 \div q1
      i2 == p2 \div q2
      r1 == p1 % q1
      r2 == p2 % q2
  IN  IF i1 # i2 THEN i1 < i2
      ELSE IF r2 = 0 THEN FALSE
      ELSE IF r1 = 0 THEN TRUE
      ELSE FracLess(q2, r2, q1, r1)

RAbs(a) == [n |-> Abs(a.n), d |-> a.d]
RLess(a, b) == Finite(a) /\ Finite(b) /\ FracLess(a.n, a.d, b.n, b.d)

\* abs(z) < t for a finite t > 0.  |z| < t needs |re z| < t and |im z| < t,
\* and these suffice when one component is 0; only a z with two non-zero
\* components below t has its squares formed.
AbsLess(z, t) ==
  IF ~CFinite(z) THEN FALSE
  ELSE IF ~RLess(RAbs(z.re), t) \/ ~RLess(RAbs(z.im), t) THEN FALSE
  ELSE IF z.re.n = 0 \/ z.im.n = 0 THEN TRUE
  ELSE RLess(RAdd(RMul(z.re, z.re), RMul(z.im, z.im)), RMul(t, t))

(***************************************************************************)
(* polynomial_and_deriv (newton.cpp 14-26): Horner's rule for p and p'.    *)
(***************************************************************************)
RECURSIVE HornerSwapped(_, _, _, _, _)
HornerSwapped(xx, cs, k, p, p_prime) ==
  IF k >= 0
  THEN LET p2 == CAdd(CMul(xx, p), CReal(cs[k]))
       IN  HornerSwapped(xx, cs, k - 1, p2, CAdd(CMul(xx, p_prime), p2))
  ELSE [p |-> p, p_prime |-> p_prime]

\* The loop of lines 19-23 from counter k on: p_prime is updated from the old
\* p, then p.
RECURSIVE Horner(_, _, _, _, _)
Horner(xx, cs, k, p, p_prime) ==
  IF k >= 0
  THEN Horner(xx, cs, k - 1, CAdd(CMul(xx, p), CReal(cs[k])),
              CAdd(CMul(xx, p_prime), p))
  ELSE [p |-> p, p_prime |-> p_prime]

\* A plausible slip: the two updates of the loop body in the other order.
polynomial_and_deriv_swapped(xx, cs, deg) ==
  HornerSwapped(xx, cs, deg - 1, CReal(cs[deg]), CZero)

polynomial_and_deriv(xx, cs, deg) ==
  Horner(xx, cs, deg - 1, CReal(cs[deg]), CZero)

(***************************************************************************)
(* newton_root (newton.cpp 28-52).                                         *)
(***************************************************************************)
\* A plausible slip: no test for a zero derivative before the division.
NewtonIterationNoZeroTest(cs, xx, deg, t) ==
  LET fg == polynomial_and_deriv(xx, cs, deg)
  IN  IF AbsLess(fg.p, t) THEN [kind |-> "converged", x |-> xx]
      ELSE [kind |-> "step", x |-> CSub(xx, CDiv(fg.p, fg.p_prime))]

\* A plausible slip: the zero-derivative test ahead of the convergence test.
NewtonIterationZeroFirst(cs, xx, deg, t) ==
  LET fg == polynomial_and_deriv(xx, cs, deg)
  IN  IF fg.p_prime = CZero THEN [kind |-> "zero_derivative", x |-> xx]
      ELSE IF AbsLess(fg.p, t) THEN [kind |-> "converged", x |-> xx]
      ELSE [kind |-> "step", x |-> CSub(xx, CDiv(fg.p, fg.p_prime))]

\* One pass through the loop body, lines 34-48.
NewtonIteration(cs, xx, deg, t) ==
  LET fg == polynomial_and_deriv(xx, cs, deg)
  IN  IF AbsLess(fg.p, t) THEN [kind |-> "converged", x |-> xx]
      ELSE IF fg.p_prime = CZero THEN [kind |-> "zero_derivative", x |-> xx]
      ELSE [kind |-> "step", x |-> CSub(xx, CDiv(fg.p, fg.p_prime))]

\* The whole call, as compute_newton_range uses it: the value returned and
\* the value written through itr_taken.
RECURSIVE newton_loop(_, _, _, _, _, _)
newton_loop(cs, xx, deg, maxit, t, k) ==
  IF k < maxit
  THEN LET step == NewtonIteration(cs, xx, deg, t)
       IN  IF step.kind = "converged" THEN [root |-> xx, itr_taken |-> k]
           ELSE IF step.kind = "zero_derivative"
                THEN [root |-> CInf, itr_taken |-> IntMax]
           ELSE newton_loop(cs, step.x, deg, maxit, t, k + 1)
  ELSE [root |-> CInf, itr_taken |-> IntMax]

newton_root(cs, xx, deg, maxit, t) == newton_loop(cs, xx, deg, maxit, t, 0)

(***************************************************************************)
(* iteration_limits (fractal.hpp 27-58): the boundaries written to `out`,  *)
(* as the vector sample_newton indexes from 0.                             *)
(***************************************************************************)
\* A plausible slip: the last boundary is one more multiple of span, so the
\* rows left over by the integer division are not covered.
iteration_limits_no_remainder(nthreads, yres) ==
  LET span == yres \div nthreads
  IN  [i \in 0..nthreads |-> span * i]

iteration_limits(nthreads, yres) ==
  LET span == yres \div nthreads
  IN  [i \in 0..nthreads |-> IF i < nthreads THEN span * i ELSE yres]

(***************************************************************************)
(* argmin (fractal.hpp 98-120) over a range given as a sequence; the index *)
(* returned counts from 0.  std::min_element keeps the first element no    *)
(* later one is smaller than: it moves on only when comp(later, kept).     *)
(***************************************************************************)
Comp(c, a, b) ==
  CASE c = "less" -> a < b
    [] c = "greater" -> a > b
    [] c = "less_half" -> a \div 2 < b \div 2

RECURSIVE MinScanLast(_, _, _, _)
MinScanLast(rng, c, smallest, k) ==
  IF k > Len(rng) THEN smallest
  ELSE MinScanLast(rng, c, IF ~Comp(c, rng[smallest], rng[k]) THEN k ELSE smallest, k + 1)

RECURSIVE MinScan(_, _, _, _)
MinScan(rng, c, smallest, k) ==
  IF k > Len(rng) THEN smallest
  ELSE MinScan(rng, c, IF Comp(c, rng[k], rng[smallest]) THEN k ELSE smallest, k + 1)

\* A plausible slip: moving on unless the kept element is smaller, which
\* keeps the last of several equal minima.
min_element_last(rng, c) == IF Len(rng) = 0 THEN 1 ELSE MinScanLast(rng, c, 1, 2)

\* The position (from 1) std::min_element returns; last (Len + 1) if empty.
min_element(rng, c) == IF Len(rng) = 0 THEN 1 ELSE MinScan(rng, c, 1, 2)

argmin(rng, c) == min_element(rng, c) - 1

(***************************************************************************)
(* sample_newton (newton.cpp 72-101) and its workers, compute_newton_range *)
(* (newton.cpp 54-70).  Thread i of the program is threads[i + 1].         *)
(***************************************************************************)
Tolerance == [n |-> 1, d |-> TolInverse]

deltax == RDiv(RSub(grid.endx, grid.startx), RInt(xresolution))
deltay == RDiv(RSub(grid.endy, grid.starty), RInt(yresolution))

\* The starting point of pixel [r][c]: std::complex<double>(real, imag).
PixelPoint(r, c) ==
  Complex(RAdd(grid.startx, RMul(deltax, RInt(c))),
          RAdd(grid.starty, RMul(deltay, RInt(r))))

IncrementsSize == Cardinality(DOMAIN increments)

\* A plausible slip: one interval too few.
LaunchCountShort == IncrementsSize - 2

\* The bound of the launching loop, increments.size()-1.
LaunchCount == IncrementsSize - 1

\* A plausible slip: every worker runs to the last row.
EndItrLast(k) == increments[IncrementsSize - 1]

StartItr(k) == increments[k]
EndItr(k) == increments[k + 1]

\* A plausible slip: the caller's flag handed on whatever the thread count.
WorkerVerboseAlways == verbose

\* The verbose argument a worker gets: num_threads>1 ? false : verbose.
WorkerVerbose == IF num_threads > 1 THEN FALSE ELSE verbose

\* A plausible slip: not waiting for the thread.
JoinReturnsAtOnce(i) == TRUE

\* th.join() returns once the thread has finished.
JoinReturns(i) == threads[i].state = "finished"

\* lines 76-79
Partition ==
  /\ pc = "partition"
  /\ increments' = iteration_limits(num_threads, yresolution)
  /\ pc' = "launch"
  /\ UNCHANGED <<num_threads, yresolution, xresolution, verbose, grid, threads,
                 joined, re, im, iterations, limit, writers, logged>>
  /\ UNCHANGED <<polyInputs, newtonVars, polyVars, argminVars>>

\* lines 82-88, one pass: the thread starts at once
Launch ==
  /\ pc = "launch"
  /\ Len(threads) < LaunchCount
  /\ LET k == Len(threads)
     IN  threads' = Append(threads,
                      [start_itr |-> StartItr(k), end_itr |-> EndItr(k),
                       verbose |-> WorkerVerbose, itr |-> StartItr(k),
                       jtr |-> 0, state |-> "running"])
  /\ UNCHANGED <<pc, num_threads, yresolution, xresolution, verbose, grid,
                 increments, joined, re, im, iterations, limit, writers, logged>>
  /\ UNCHANGED <<polyInputs, newtonVars, polyVars, argminVars>>

\* lines 82, 90-92: the launching loop ends
LaunchEnd ==
  /\ pc = "launch"
  /\ Len(threads) >= LaunchCount
  /\ pc' = "join"
  /\ UNCHANGED <<sampleVars, polyInputs, newtonVars, polyVars, argminVars>>

\* compute_newton_range, lines 63-66: the three buffers after pixel [r][c]
PixelWrite(bufs, r, c) ==
  LET res == newton_root(coeffs, PixelPoint(r, c), degree, max_itr, Tolerance)
  IN  [iterations |-> [bufs.iterations EXCEPT ![r][c] = res.itr_taken],
       re |-> [bufs.re EXCEPT ![r][c] = res.root.re],
       im |-> [bufs.im EXCEPT ![r][c] = res.root.im]]

\* compute_newton_range run alone from pixel [r][c] to row end_itr
RECURSIVE RangeRun(_, _, _, _)
RangeRun(bufs, r, c, end_itr) ==
  IF r >= end_itr THEN bufs
  ELSE IF c + 1 >= xresolution THEN RangeRun(PixelWrite(bufs, r, c), r + 1, 0, end_itr)
  ELSE RangeRun(PixelWrite(bufs, r, c), r, c + 1, end_itr)

\* compute_newton_range, lines 58-68: one pixel, and the end of its row.  The
\* three writes of a pixel (iterations through itr_taken, then re, then im)
\* are one step: they go to the same [r][c].
WorkerPixel(i) ==
  /\ i \in 1..Len(threads)
  /\ threads[i].state = "running"
  /\ threads[i].itr < threads[i].end_itr
  /\ LET r == threads[i].itr
         c == threads[i].jtr
         new == PixelWrite([iterations |-> iterations, re |-> re, im |-> im], r, c)
         rowEnds == c + 1 >= xresolution
     IN  /\ iterations' = new.iterations
         /\ re' = new.re
         /\ im' = new.im
         /\ writers' = [writers EXCEPT ![r][c] = Append(@, i - 1)]
         /\ logged' = IF rowEnds /\ threads[i].verbose /\ r % LogEvery = 0 /\ r # 0
                      THEN logged \cup {[thread |-> i - 1, points |-> r * xresolution]}
                      ELSE logged
         /\ threads' = [threads EXCEPT ![i] =
                          IF rowEnds THEN [@ EXCEPT !.itr = r + 1, !.jtr = 0]
                          ELSE [@ EXCEPT !.jtr = c + 1]]
  /\ UNCHANGED <<pc, num_threads, yresolution, xresolution, verbose, grid,
                 increments, joined, limit>>
  /\ UNCHANGED <<polyInputs, newtonVars, polyVars, argminVars>>

\* compute_newton_range, line 58: the row loop ends and the thread finishes
WorkerReturn(i) ==
  /\ i \in 1..Len(threads)
  /\ threads[i].state = "running"
  /\ threads[i].itr >= threads[i].end_itr
  /\ threads' = [threads EXCEPT ![i].state = "finished"]
  /\ UNCHANGED <<pc, num_threads, yresolution, xresolution, verbose, grid,
                 increments, joined, re, im, iterations, limit, writers, logged>>
  /\ UNCHANGED <<polyInputs, newtonVars, polyVars, argminVars>>

\* line 93, one pass
Join ==
  /\ pc = "join"
  /\ joined < Len(threads)
  /\ JoinReturns(joined + 1)
  /\ joined' = joined + 1
  /\ UNCHANGED <<pc, num_threads, yresolution, xresolution, verbose, grid,
                 increments, threads, re, im, iterations, limit, writers, logged>>
  /\ UNCHANGED <<polyInputs, newtonVars, polyVars, argminVars>>

\* lines 93-100: every thread joined, *limit written, return
Finish ==
  /\ pc = "join"
  /\ joined >= Len(threads)
  /\ limit' = IntMax
  /\ pc' = "done"
  /\ UNCHANGED <<num_threads, yresolution, xresolution, verbose, grid,
                 increments, threads, joined, re, im, iterations, writers, logged>>
  /\ UNCHANGED <<polyInputs, newtonVars, polyVars, argminVars>>

(***************************************************************************)
(* Inputs.                                                                 *)
(***************************************************************************)
Poly(cs) == [i \in 0..(Len(cs) - 1) |-> cs[i + 1]]
Half == [n |-> 1, d |-> 2]
Unwritten == 0 - 1

\* x^2 - 1, x^2, x + 1
SamplePolys == {Poly(<<0 - 1, 0, 1>>), Poly(<<0, 0, 1>>), Poly(<<1, 1>>)}
SampleGrid == [startx |-> RInt(0 - 1), endx |-> RInt(1),
               starty |-> RInt(0 - 1), endy |-> RInt(1)]

NewtonIdle ==
  /\ tol = Tolerance /\ init = CZero /\ x = CZero /\ itr = 0
  /\ itr_taken = Unwritten /\ ret = CZero
PolyIdle == px = 0 /\ presult = [p |-> CZero, p_prime |-> CZero]
ArgminIdle == range = <<>> /\ comp = "less" /\ aresult = Unwritten

\* The state on entry to sample_newton; the buffers are the caller's, their
\* contents not yet written.
SampleEntry(threadCounts, yres, xres, maxItrs, polys, flags) ==
  /\ pc = "partition"
  /\ num_threads \in threadCounts
  /\ yresolution \in yres
  /\ xresolution \in xres
  /\ verbose \in flags
  /\ grid = SampleGrid
  /\ coeffs \in polys
  /\ degree = Cardinality(DOMAIN coeffs) - 1
  /\ max_itr \in maxItrs
  /\ increments = <<>>
  /\ threads = <<>>
  /\ joined = 0
  /\ re = [r \in 0..(yresolution - 1) |-> [c \in 0..(xresolution - 1) |-> RNaN]]
  /\ im = [r \in 0..(yresolution - 1) |-> [c \in 0..(xresolution - 1) |-> RNaN]]
  /\ iterations = [r \in 0..(yresolution - 1) |-> [c \in 0..(xresolution - 1) |-> Unwritten]]
  /\ writers = [r \in 0..(yresolution - 1) |-> [c \in 0..(xresolution - 1) |-> <<>>]]
  /\ limit = Unwritten
  /\ logged = {}
  /\ NewtonIdle /\ PolyIdle /\ ArgminIdle

Init == SampleEntry(1..MaxThreads, 1..MaxY, 1..MaxX, 0..MaxItr, SamplePolys, {TRUE})

Next ==
  \/ Partition
  \/ Launch
  \/ LaunchEnd
  \/ \E i \in 1..Len(threads) : WorkerPixel(i)
  \/ \E i \in 1..Len(threads) : WorkerReturn(i)
  \/ Join
  \/ Finish

Spec == Init /\ [][Next]_vars

(***************************************************************************)
(* sample_newton on a grid tall enough for a progress line (row LogEvery). *)
(***************************************************************************)
InitLog ==
  SampleEntry(1..MaxLogThreads, {LogEvery + 1}, {1}, {0}, {Poly(<<0, 0, 1>>)}, BOOLEAN)
SpecLog == InitLog /\ [][Next]_vars

(***************************************************************************)
(* iteration_limits alone, for more thread and row counts.                 *)
(***************************************************************************)
InitPartition ==
  SampleEntry(1..MaxPartThreads, 1..MaxPartY, {1}, {0}, {Poly(<<0, 0, 1>>)}, BOOLEAN)
SpecPartition == InitPartition /\ [][Partition]_vars

(***************************************************************************)
(* Calls of the pure functions alone.  The variables of sample_newton rest.*)
(***************************************************************************)
SampleIdle ==
  /\ num_threads = 1 /\ yresolution = 1 /\ xresolution = 1 /\ verbose = FALSE
  /\ grid = SampleGrid /\ increments = <<>> /\ threads = <<>> /\ joined = 0
  /\ re = <<>> /\ im = <<>> /\ iterations = <<>> /\ writers = <<>>
  /\ limit = Unwritten /\ logged = {}

\* ---- newton_root, one pass of its loop per step
\* x^2 - 1, x^2, x^2 + 1, x, 2x - 1, 1
NewtonPolys ==
  {Poly(<<0 - 1, 0, 1>>), Poly(<<0, 0, 1>>), Poly(<<1, 0, 1>>), Poly(<<0, 1>>),
   Poly(<<0 - 1, 2>>), Poly(<<1>>)}
NewtonStarts ==
  {Complex(RInt(a), RInt(0)) : a \in (0 - 1)..2}
    \cup {Complex(Half, RInt(0)), Complex([n |-> 3, d |-> 2], RInt(0)),
          Complex([n |-> 1, d |-> 4], RInt(0)),
          Complex(RInt(0), RInt(1)), Complex(RInt(1), RInt(1))}
NewtonTols == {Tolerance, [n |-> 1, d |-> 10]}

InitNewton ==
  /\ pc = "newton_loop"
  /\ coeffs \in NewtonPolys
  /\ degree = Cardinality(DOMAIN coeffs) - 1
  /\ max_itr \in (0 - 1)..MaxNewtonItr
  /\ tol \in NewtonTols
  /\ init \in NewtonStarts
  /\ x = init
  /\ itr = 0
  /\ itr_taken = Unwritten
  /\ ret = CZero
  /\ SampleIdle /\ PolyIdle /\ ArgminIdle

\* lines 36-40
NewtonConverged ==
  /\ pc = "newton_loop"
  /\ itr < max_itr
  /\ NewtonIteration(coeffs, x, degree, tol).kind = "converged"
  /\ itr_taken' = itr
  /\ ret' = x
  /\ pc' = "newton_returned"
  /\ UNCHANGED <<tol, init, x, itr>>
  /\ UNCHANGED <<sampleVars, polyInputs, polyVars, argminVars>>

\* lines 41-46
NewtonZeroDerivative ==
  /\ pc = "newton_loop"
  /\ itr < max_itr
  /\ NewtonIteration(coeffs, x, degree, tol).kind = "zero_derivative"
  /\ itr_taken' = IntMax
  /\ ret' = CInf
  /\ pc' = "newton_returned"
  /\ UNCHANGED <<tol, init, x, itr>>
  /\ UNCHANGED <<sampleVars, polyInputs, polyVars, argminVars>>

\* line 48 and the ++itr of line 32
NewtonStep ==
  /\ pc = "newton_loop"
  /\ itr < max_itr
  /\ NewtonIteration(coeffs, x, degree, tol).kind = "step"
  /\ x' = NewtonIteration(coeffs, x, degree, tol).x
  /\ itr' = itr + 1
  /\ UNCHANGED <<pc, tol, init, itr_taken, ret>>
  /\ UNCHANGED <<sampleVars, polyInputs, polyVars, argminVars>>

\* lines 50-51
NewtonExhausted ==
  /\ pc = "newton_loop"
  /\ itr >= max_itr
  /\ itr_taken' = IntMax
  /\ ret' = CInf
  /\ pc' = "newton_returned"
  /\ UNCHANGED <<tol, init, x, itr>>
  /\ UNCHANGED <<sampleVars, polyInputs, polyVars, argminVars>>

NextNewton == NewtonConverged \/ NewtonZeroDerivative \/ NewtonStep \/ NewtonExhausted
SpecNewton == InitNewton /\ [][NextNewton]_vars

\* The stepwise call and the call as compute_newton_range makes it agree.
NewtonCallAgrees ==
  pc = "newton_returned" =>
    newton_root(coeffs, init, degree, max_itr, tol) = [root |-> ret, itr_taken |-> itr_taken]

\* ---- polynomial_and_deriv
CoeffSet == (0 - 1)..2
XSet == (0 - 2)..3

InitPoly ==
  /\ pc = "poly_call"
  /\ degree \in 0..MaxDegree
  /\ coeffs \in [0..degree -> CoeffSet]
  /\ max_itr = 0
  /\ px \in XSet
  /\ presult = [p |-> CZero, p_prime |-> CZero]
  /\ SampleIdle /\ NewtonIdle /\ ArgminIdle

PolyCall ==
  /\ pc = "poly_call"
  /\ presult' = polynomial_and_deriv(CReal(px), coeffs, degree)
  /\ pc' = "poly_returned"
  /\ UNCHANGED <<px, sampleVars, polyInputs, newtonVars, argminVars>>

SpecPoly == InitPoly /\ [][PolyCall]_vars

\* ---- argmin
MaxDist == 3
Comps == {"less", "greater", "less_half"}

InitArgmin ==
  /\ pc = "argmin_call"
  /\ range \in UNION {[1..n -> 0..MaxDist] : n \in 1..MaxLen}
  /\ comp \in Comps
  /\ aresult = Unwritten
  /\ coeffs = Poly(<<0>>) /\ degree = 0 /\ max_itr = 0
  /\ SampleIdle /\ NewtonIdle /\ PolyIdle

ArgminCall ==
  /\ pc = "argmin_call"
  /\ aresult' = argmin(range, comp)
  /\ pc' = "argmin_returned"
  /\ UNCHANGED <<range, comp, sampleVars, polyInputs, newtonVars, polyVars>>

SpecArgmin == InitArgmin /\ [][ArgminCall]_vars

(***************************************************************************)
(*                              The claims                                 *)
(***************************************************************************)
Rows == 0..(yresolution - 1)
Cols == 0..(xresolution - 1)

\* ------------------------------------------------------------------ C1
\* C1: for every num_threads >= 1 and yresolution >= 1, num_threads > yresolution
\* included, iteration_limits writes exactly num_threads + 1 boundaries
\* b_0..b_n with b_0 = 0, b_n = yresolution, b_i = i * (yresolution div
\* num_threads) for i < n, and b_i <= b_(i+1); every row of [0, yresolution)
\* lies in exactly one interval [b_i, b_(i+1)) and no interval leaves
\* [0, yresolution].
PartitionCovers ==
  pc = "launch" =>
    /\ DOMAIN increments = 0..num_threads
    /\ increments[0] = 0
    /\ increments[num_threads] = yresolution
    /\ \A i \in 0..(num_threads - 1) :
         /\ increments[i] = i * (yresolution \div num_threads)
         /\ increments[i] <= increments[i + 1]
         /\ 0 <= increments[i] /\ increments[i + 1] <= yresolution
    /\ \A r \in Rows :
         Cardinality({i \in 0..(num_threads - 1) :
                        increments[i] <= r /\ r < increments[i + 1]}) = 1

\* More threads than rows, with a remainder: every interval but the last is
\* empty.
PartitionCoversWitness ==
  /\ pc = "launch"
  /\ num_threads > yresolution /\ yresolution > 1
  /\ increments[num_threads - 1] = 0
  /\ increments[num_threads] = yresolution

\* ------------------------------------------------------------------ C2
\* C2: under every interleaving, each worker writes only cells [r][c] of re,
\* im and iterations whose row r lies in its own interval [start_itr,
\* end_itr); a cell no worker has written still holds what the caller left
\* there; no cell is written by two different workers.
WorkersWriteOwnRows ==
  \A r \in Rows : \A c \in Cols :
    /\ \A k \in 1..Len(writers[r][c]) :
         LET w == writers[r][c][k]
         IN  /\ w + 1 \in 1..Len(threads)
             /\ threads[w + 1].start_itr <= r
             /\ r < threads[w + 1].end_itr
             /\ w = writers[r][c][1]
    /\ writers[r][c] = <<>> =>
         /\ iterations[r][c] = Unwritten
         /\ re[r][c] = RNaN
         /\ im[r][c] = RNaN

\* Two workers have each written a pixel and both are still running.
WorkersWriteOwnRowsWitness ==
  \E r1 \in Rows, r2 \in Rows : \E c1 \in Cols, c2 \in Cols :
    /\ writers[r1][c1] # <<>> /\ writers[r2][c2] # <<>>
    /\ writers[r1][c1][1] # writers[r2][c2][1]
    /\ threads[writers[r1][c1][1] + 1].state = "running"
    /\ threads[writers[r2][c2][1] + 1].state = "running"

\* ------------------------------------------------------------------ C3
\* C3: sample_newton writes *limit and returns only after every worker it
\* launched has finished, and then every cell [r][c] with 0 <= r <
\* yresolution, 0 <= c < xresolution of re, im and iterations has been
\* written exactly once; a pixel that did not converge does not stop its
\* worker, which goes on through its interval.
ReturnsAfterAllWritten ==
  /\ pc # "done" => limit = Unwritten
  /\ pc = "done" =>
       /\ limit = IntMax
       /\ \A i \in 1..Len(threads) :
            /\ threads[i].state = "finished"
            /\ threads[i].itr >= threads[i].end_itr
       /\ \A r \in Rows : \A c \in Cols :
            /\ Len(writers[r][c]) = 1
            /\ iterations[r][c] # Unwritten
            /\ re[r][c] # RNaN
            /\ im[r][c] # RNaN

\* The call has returned, and some worker met a pixel that did not converge
\* and after it, in its own interval, one that did.
ReturnsAfterAllWrittenWitness ==
  /\ pc = "done"
  /\ \E r1 \in Rows, r2 \in Rows : \E c1 \in Cols, c2 \in Cols :
       /\ r1 < r2
       /\ writers[r1][c1] = writers[r2][c2]
       /\ iterations[r1][c1] = IntMax /\ re[r1][c1] = RInf
       /\ iterations[r2][c2] < max_itr /\ Finite(re[r2][c2])

\* ------------------------------------------------------------------ C4
\* C4: for fixed coeffs, degree, max_itr, grid and resolutions, the contents
\* of re, im and iterations when sample_newton returns are those the single
\* worker of a num_threads = 1 run produces (compute_newton_range over rows
\* [0, yresolution) on the caller's buffers), for every num_threads >= 1
\* and every interleaving.
CallersBuffers ==
  [iterations |-> [r \in Rows |-> [c \in Cols |-> Unwritten]],
   re |-> [r \in Rows |-> [c \in Cols |-> RNaN]],
   im |-> [r \in Rows |-> [c \in Cols |-> RNaN]]]

SameAsSingleThread ==
  pc = "done" =>
    [iterations |-> iterations, re |-> re, im |-> im]
      = RangeRun(CallersBuffers, 0, 0, yresolution)

\* A finished run of several workers, two of which wrote pixels, with both
\* converged and non-converged pixels in the result.
SameAsSingleThreadWitness ==
  /\ pc = "done"
  /\ num_threads > 1
  /\ \E r1 \in Rows, r2 \in Rows : \E c1 \in Cols, c2 \in Cols :
       /\ writers[r1][c1] # writers[r2][c2]
       /\ iterations[r1][c1] = IntMax
       /\ iterations[r2][c2] < max_itr

\* ------------------------------------------------------------------ C5
\* The iterates of Newton's method from init, x_(k+1) = x_k - f(x_k)/f'(x_k),
\* and what the claim says of them.
F(z) == polynomial_and_deriv(z, coeffs, degree)

RECURSIVE Iterate(_)
Iterate(k) ==
  IF k = 0 THEN init
  ELSE LET y == Iterate(k - 1) IN CSub(y, CDiv(F(y).p, F(y).p_prime))

Below(k) == AbsLess(F(Iterate(k)).p, tol)
ZeroDerivativeAt(k) == ~Below(k) /\ F(Iterate(k)).p_prime = CZero
NoStopBefore(k) == \A j \in 0..(k - 1) : ~Below(j) /\ ~ZeroDerivativeAt(j)
ConvergedAt(k) == NoStopBefore(k) /\ Below(k)

\* C5: every call of newton_root ends either converged, with *itr_taken the
\* index k in [0, max_itr) of the first iterate with |f| < tol and that
\* iterate returned, or non-converged, with *itr_taken the maximum int and
\* (infinity, infinity) returned; the second exactly when a zero derivative
\* is met at an iterate with |f| >= tol or max_itr iterations pass without
\* |f| < tol (max_itr <= 0 included).  The two are never mixed.
NewtonOutcome ==
  pc = "newton_returned" =>
    LET converged == \E k \in 0..(max_itr - 1) : ConvergedAt(k)
        zeroMet == \E k \in 0..(max_itr - 1) : NoStopBefore(k) /\ ZeroDerivativeAt(k)
        exhausted == NoStopBefore(max_itr)
        sentinel == itr_taken = IntMax /\ ret = CInf
    IN  /\ converged =>
             \E k \in 0..(max_itr - 1) :
               ConvergedAt(k) /\ itr_taken = k /\ ret = Iterate(k) /\ CFinite(ret)
        /\ ~converged => sentinel
        /\ sentinel <=> (zeroMet \/ exhausted)
        /\ itr_taken = IntMax <=> ret = CInf
        /\ itr_taken = IntMax \/ itr_taken \in 0..(max_itr - 1)

\* A call that converged after at least one Newton step, on a value of f
\* that is below tol without being 0.
NewtonOutcomeWitness ==
  /\ pc = "newton_returned"
  /\ itr_taken \in 1..(max_itr - 1)
  /\ ret # init
  /\ F(ret).p # CZero

\* ------------------------------------------------------------------ C6
\* C6 as stated: sample_newton starts no worker thread for an empty interval
\* (b_i = b_(i+1)).
NoWorkerForEmptyInterval ==
  \A i \in 1..Len(threads) : threads[i].start_itr < threads[i].end_itr

\* C6, amended: for every num_threads >= 1 and yresolution >= 1,
\* sample_newton starts exactly one worker thread for each of the
\* num_threads intervals [b_i, b_(i+1)), the empty ones included; the worker
\* of an empty interval writes no cell.
OneWorkerPerInterval ==
  /\ Len(threads) <= num_threads
  /\ pc \in {"join", "done"} => Len(threads) = num_threads
  /\ \A i \in 1..Len(threads) :
       /\ threads[i].start_itr = (i - 1) * (yresolution \div num_threads)
       /\ threads[i].end_itr = IF i = num_threads THEN yresolution
                                ELSE i * (yresolution \div num_threads)
       /\ threads[i].start_itr = threads[i].end_itr =>
            \A r \in Rows : \A c \in Cols :
              \A k \in 1..Len(writers[r][c]) : writers[r][c][k] # i - 1

\* Every thread is launched, and one of them, for an empty interval, has
\* finished.
OneWorkerPerIntervalWitness ==
  /\ pc = "join"
  /\ \E i \in 1..Len(threads) :
       /\ threads[i].start_itr = threads[i].end_itr
       /\ threads[i].state = "finished"

\* ------------------------------------------------------------------ C7
RECURSIVE Pow(_, _)
Pow(b, e) == IF e = 0 THEN 1 ELSE b * Pow(b, e - 1)

RECURSIVE PolySum(_)
PolySum(k) == IF k < 0 THEN 0 ELSE coeffs[k] * Pow(px, k) + PolySum(k - 1)

RECURSIVE DerivSum(_)
DerivSum(k) == IF k < 1 THEN 0 ELSE k * coeffs[k] * Pow(px, k - 1) + DerivSum(k - 1)

\* C7: polynomial_and_deriv returns (p(x), p'(x)) for p(x) = sum over i in
\* 0..degree of coeffs[i] * x^i: the first component is sum coeffs[i] * x^i
\* and the second sum i * coeffs[i] * x^(i-1), for every degree >= 0, integer
\* coefficients and integer x.
HornerCorrect ==
  pc = "poly_returned" =>
    presult = [p |-> CReal(PolySum(degree)), p_prime |-> CReal(DerivSum(degree))]

\* coeffs = [0, 0, 1] at x = 3 gives (9, 6).
HornerCorrectWitness ==
  /\ pc = "poly_returned"
  /\ coeffs = Poly(<<0, 0, 1>>)
  /\ px = 3
  /\ presult = [p |-> CReal(9), p_prime |-> CReal(6)]

\* ------------------------------------------------------------------ C8
\* C8: for every non-empty range and strict ordering comp, argmin returns an
\* index i such that no element is smaller than element i under comp and
\* every element at an index j < i is strictly larger than element i: of
\* several equal minima the lowest index is returned.
ArgminFirstMinimum ==
  pc = "argmin_returned" =>
    LET i == aresult + 1
    IN  /\ i \in 1..Len(range)
        /\ \A j \in 1..Len(range) : ~Comp(comp, range[j], range[i])
        /\ \A j \in 1..(i - 1) : Comp(comp, range[i], range[j])

\* The minimum occurs again after the index returned, which is not the
\* first of the range.
ArgminFirstMinimumWitness ==
  /\ pc = "argmin_returned"
  /\ comp = "less"
  /\ aresult > 0
  /\ \E j \in (aresult + 2)..Len(range) : range[j] = range[aresult + 1]

\* ------------------------------------------------------------------ C9
\* C9: in a sample_newton call with num_threads > 1 no worker ever emits a
\* "Processed ... points of ..." line, whatever the verbose flag; with
\* num_threads = 1 the single worker gets the caller's verbose flag.
NoProgressLinesFromManyWorkers ==
  /\ num_threads > 1 => logged = {}
  /\ \A i \in 1..Len(threads) :
       /\ num_threads > 1 => ~threads[i].verbose
       /\ num_threads = 1 => threads[i].verbose = verbose

\* Several workers, the caller asked for progress lines, and a worker is
\* past row LogEvery, where a verbose worker prints one.
NoProgressLinesFromManyWorkersWitness ==
  /\ num_threads > 1
  /\ verbose
  /\ logged = {}
  /\ \E i \in 1..Len(threads) :
       threads[i].start_itr <= LogEvery /\ threads[i].itr > LogEvery

\* The single worker of a verbose one-thread run has printed its line.
SingleWorkerLogs ==
  num_threads = 1 /\ logged = {[thread |-> 0, points |-> LogEvery * xresolution]}

\* ------------------------------------------------------------------ C10
\* C10 as stated: newton_root started exactly at a critical point, where the
\* derivative is zero, returns the non-convergence sentinel.
CriticalStartAlwaysSentinel ==
  pc = "newton_returned" /\ F(init).p_prime = CZero =>
    itr_taken = IntMax /\ ret = CInf

\* C10, amended: newton_root started at a critical point x0 with |f(x0)| >=
\* tol returns the sentinel (*itr_taken = max int, (infinity, infinity))
\* without taking a Newton step; in each iteration the test |f| < tol comes
\* before the zero-derivative test, so a return from an iterate with |f| <
\* tol is the converged one even where the derivative is zero; the update
\* x <- x - f/f' is performed only when both tests fail.
CriticalStartSentinel ==
  /\ [](pc = "newton_returned" =>
         /\ F(init).p_prime = CZero /\ ~AbsLess(F(init).p, tol) =>
              itr_taken = IntMax /\ ret = CInf /\ itr = 0 /\ x = init
         /\ itr < max_itr /\ AbsLess(F(x).p, tol) =>
              itr_taken = itr /\ ret = x)
  /\ [][itr' # itr =>
          /\ ~AbsLess(F(x).p, tol)
          /\ F(x).p_prime # CZero
          /\ x' = CSub(x, CDiv(F(x).p, F(x).p_prime))
          /\ itr' = itr + 1]_vars

\* x^2 - 1 started at 0 with iterations to spare: the sentinel, x untouched.
CriticalStartSentinelWitness ==
  /\ pc = "newton_returned"
  /\ max_itr >= 1
  /\ coeffs = Poly(<<0 - 1, 0, 1>>)
  /\ init = CZero
  /\ x = init /\ itr = 0
  /\ itr_taken = IntMax /\ ret = CInf

=============================================================================
